---- MODULE Spec2Model ----
(***************************************************************************)
(* Model of the mix-analyzer relay: the HTTP front end                     *)
(* (src/analyze_service.py, POST /analyze) and the remote analysis client  *)
(* (src/mix_client.py, analyze_track and its helpers).  One behaviour is   *)
(* one request: either a POST /analyze handled by the front end, which     *)
(* calls analyze_track, or a direct call of analyze_track.  The remote     *)
(* host is the environment: every network call nondeterministically        *)
(* returns one of a small set of responses or fails at the network level.  *)
(* The multipart file part (bytes, guessed MIME type) and the instrumental  *)
(* flags of the body are sent as given and influence no decision of the     *)
(* client; of the request only the CSRF token it carries is tracked.        *)
(* Time is counted in whole seconds; the client reads the clock only in     *)
(* the poll loop.                                                           *)
(***************************************************************************)
EXTENDS Integers, Sequences, FiniteSets, TLC

VARIABLES
    caller,        \* "frontend" (POST /analyze) or "direct" (analyze_track called as a library)
    song_read,     \* what `await song.read()` yields: "data", "empty" or "ioerror"
    song_filename, \* song.filename of the upload (Absent for None)
    file_bytes,    \* analyze_track argument: "data" or "empty" (b"")
    filename,      \* analyze_track argument
    timeout,       \* analyze_track argument (seconds)
    retry_csrf,    \* analyze_track argument
    pc,            \* position of the request
    now,           \* time.time(), in seconds since the request began
    session_open,  \* a requests.Session has been created and not closed
    session_token, \* session.headers["X-CSRFToken"]
    hdr_token,     \* post_headers["X-CSRFToken"]
    data_token,    \* data["csrf_token"]
    cr,            \* response of the latest GET /csrf-token
    r,             \* `r` of _post_with_optional_retry / analyze_track: the upload response
    pr,            \* `r` of _poll_json_results: the latest poll response
    start,         \* `start` of _poll_json_results
    file_id,       \* `file_id` of analyze_track
    json_results,  \* what _poll_json_results returned
    outcome,       \* how analyze_track ended: returned value or raised exception
    fe,            \* the HTTP response of POST /analyze
    latest,        \* history: token returned by the latest successful _get_csrf (Absent: none)
    last_post,     \* history: the tokens carried by the latest upload POST
    nPost,         \* history: number of upload POSTs issued
    last_status,   \* history: response status of the latest upload POST (0: it failed)
    nGet,          \* history: number of GET /csrf-token requests issued
    nPoll,         \* history: number of poll GETs issued, counted up to MaxPolls
    nNonTerminal,  \* history: number of polls after which the loop went on, counted up to MaxPolls
    poll_began,    \* history: the time at which _poll_json_results was entered
    last_poll_at,  \* history: the time at which the latest poll GET was issued
    last_sleep,    \* history: seconds slept after the latest poll (0: no sleep)
    backoff,       \* history: sleeps of the overload backoff, in order
    first_class,   \* history: class of the first upload POST's response status
    calls,         \* two concurrent calls of analyze_track: the locals of each
    sessions,      \* two concurrent calls: the requests.Session objects
    issued,        \* two concurrent calls: number of CSRF tokens the host has issued
    uploaded       \* two concurrent calls: number of file_ids the host has assigned

callvars == <<caller, song_read, song_filename, file_bytes, filename, timeout,
          retry_csrf, pc, now, session_open, session_token, hdr_token,
          data_token, cr, r, pr, start, file_id, json_results, outcome, fe,
          latest, last_post, nPost, last_status, nGet, nPoll, nNonTerminal,
          poll_began, last_poll_at, last_sleep, backoff, first_class>>

pairvars == <<calls, sessions, issued, uploaded>>

vars == <<callvars, pairvars>>

(***************************************************************************)
(* Bounds of the model.                                                    *)
(***************************************************************************)
MaxDur == 1        \* a network call takes 0..MaxDur seconds
MaxTimeout == 2    \* largest timeout argument tried
MaxPolls == 2      \* polls are counted up to MaxPolls (MaxPolls: that many or more)

Durations == 0 .. MaxDur
Timeouts == {0, MaxTimeout}

(***************************************************************************)
(* Program constants.                                                      *)
(***************************************************************************)
BASE == "https://mixanalytic.com"
BackoffSleep == 2
PollSleepNotReady == 3
PollSleepParseFailure == 2
PollSleepOther == 2
CsrfTimeoutCap == 20
DefaultFilename == "upload.mp3"

(***************************************************************************)
(* Python values.  A dict is a record over a fixed set of keys in which    *)
(* the value Absent marks a key that is not in the dict (dict.get then     *)
(* yields None); Empty stands for a present but falsy value.               *)
(***************************************************************************)
Absent == "<absent>"
Empty == ""

Truthy(v) == v \notin {Absent, Empty}

\* Python `a or b`
PyOr(a, b) == IF Truthy(a) THEN a ELSE b


(***************************************************************************)
(* JSON objects exchanged with the remote host and returned to the caller. *)
(* `visualizations` is a set of <<name, url>> pairs ({} when absent).      *)
(***************************************************************************)
Obj(res, fid, fname, st, vis) ==
    [results |-> res, file_id |-> fid, filename |-> fname, status |-> st,
     visualizations |-> vis]

\* the dict {}
NoObj == Obj(Absent, Absent, Absent, Absent, {})

\* bool(d) of a dict d: false exactly for {}
TruthyObj(o) == o # NoObj

\* An HTTP outcome: a response, or a network-level failure (net = "error")
Response(st, ct, k, o) ==
    [net |-> "ok", status |-> st, ctype |-> ct, kind |-> k, obj |-> o]
NetError == [net |-> "error", status |-> 0, ctype |-> "", kind |-> "text", obj |-> NoObj]
NoResponse == [net |-> "none", status |-> 0, ctype |-> "", kind |-> "text", obj |-> NoObj]

\* kind of a body: "text" does not parse as JSON, "object" parses to a dict,
\* "array" parses to a non-empty JSON array (a truthy value that is no dict)

(***************************************************************************)
(* What the remote host may answer.                                        *)
(***************************************************************************)
TokenA == "tokA"
TokenB == "tokB"

CsrfObjs == [csrf_token : {Absent, Empty, TokenA}, csrfToken : {Absent, TokenB}]
NoCsrfObj == [csrf_token |-> Absent, csrfToken |-> Absent]

CsrfResponse(st, k, o) == [net |-> "ok", status |-> st, kind |-> k, obj |-> o]
CsrfNetError == [net |-> "error", status |-> 0, kind |-> "text", obj |-> NoCsrfObj]
NoCsrfResponse == [net |-> "none", status |-> 0, kind |-> "text", obj |-> NoCsrfObj]

CsrfResponses ==
    {CsrfResponse(st, k, NoCsrfObj) : st \in {200, 500}, k \in {"text", "array"}}
    \cup {CsrfResponse(st, "object", o) : st \in {200, 500}, o \in CsrfObjs}
    \cup {CsrfNetError}

AuthStatuses == {401, 403}
OverloadStatuses == {429, 500, 502, 503, 504}
UploadStatuses == {200, 404} \cup AuthStatuses \cup OverloadStatuses

UploadObjs ==
    {Obj(res, fid, Absent, Absent, {}) :
        res \in {Absent, Empty, "R"}, fid \in {Absent, Empty, "f1"}}

UploadResponses ==
    {Response(st, "text/html", "text", NoObj) : st \in UploadStatuses}
    \cup {Response(200, "application/json", "array", NoObj)}
    \cup {Response(200, "application/json", "object", o) : o \in UploadObjs}
    \cup {NetError}

PollObjs ==
    { NoObj,
      Obj("R", Absent, Absent, Absent, {}),
      Obj("R", "f2", "remote.mp3", Absent, {}) }

PollResponses ==
    {Response(st, "text/html", "text", NoObj) : st \in {200, 403, 404, 500}}
    \cup {Response(200, "application/json", k, NoObj) : k \in {"text", "array"}}
    \cup {Response(200, "application/json; charset=utf-8", "object", o) : o \in PollObjs}
    \cup {NetError}

(***************************************************************************)
(* How analyze_track ends.                                                 *)
(***************************************************************************)
Running == [kind |-> "none", value |-> NoObj, etype |-> "", msg |-> "", code |-> 0]
Return(o) == [kind |-> "return", value |-> o, etype |-> "", msg |-> "", code |-> 0]
Raise(t, m, c) == [kind |-> "raise", value |-> NoObj, etype |-> t, msg |-> m, code |-> c]

\* the exception a failed network call raises (requests.ConnectionError / Timeout)
NetworkFailure == Raise("ConnectionError", "network failure", 0)

NoFe == [status |-> 0, body |-> NoObj, detail |-> ""]


(***************************************************************************)
(* mix_client.py: helpers                                                  *)
(***************************************************************************)
\* str.startswith
StartsWith(s, p) == Len(s) >= Len(p) /\ SubSeq(s, 1, Len(p)) = p

\* get_csrf reading the csrf_token key only
get_csrf_one_key(resp) ==
    IF resp.net = "error"
    THEN [ok |-> FALSE, token |-> Absent, exc |-> NetworkFailure]
    ELSE IF resp.status >= 400
    THEN [ok |-> FALSE, token |-> Absent,
          exc |-> Raise("HTTPError", "csrf-token status " \o ToString(resp.status), resp.status)]
    ELSE IF resp.kind = "text"
    THEN [ok |-> FALSE, token |-> Absent,
          exc |-> Raise("RuntimeError", "Could not parse CSRF response as JSON", 0)]
    ELSE IF resp.kind # "object"
    THEN [ok |-> FALSE, token |-> Absent,
          exc |-> Raise("AttributeError", "'list' object has no attribute 'get'", 0)]
    ELSE IF ~Truthy(resp.obj.csrf_token)
    THEN [ok |-> FALSE, token |-> Absent,
          exc |-> Raise("RuntimeError", "Could not fetch CSRF token", 0)]
    ELSE [ok |-> TRUE, token |-> resp.obj.csrf_token, exc |-> Running]

\* _get_csrf, lines 47-60, applied to the response of GET {BASE}/csrf-token:
\* the token, or the exception raised
get_csrf(resp) ==
    IF resp.net = "error"
    THEN [ok |-> FALSE, token |-> Absent, exc |-> NetworkFailure]
    ELSE IF resp.status >= 400
    THEN [ok |-> FALSE, token |-> Absent,
          exc |-> Raise("HTTPError", "csrf-token status " \o ToString(resp.status), resp.status)]
    ELSE IF resp.kind = "text"
    THEN [ok |-> FALSE, token |-> Absent,
          exc |-> Raise("RuntimeError", "Could not parse CSRF response as JSON", 0)]
    ELSE IF resp.kind # "object"
    THEN [ok |-> FALSE, token |-> Absent,
          exc |-> Raise("AttributeError", "'list' object has no attribute 'get'", 0)]
    ELSE LET token == PyOr(resp.obj.csrf_token, resp.obj.csrfToken)
         IN  IF ~Truthy(token)
             THEN [ok |-> FALSE, token |-> Absent,
                   exc |-> Raise("RuntimeError", "Could not fetch CSRF token", 0)]
             ELSE [ok |-> TRUE, token |-> token, exc |-> Running]

\* line 172: min(20, timeout), the timeout of the token GET
csrf_timeout(t) == IF t < CsrfTimeoutCap THEN t ELSE CsrfTimeoutCap

\* session.get / session.post called with timeout t (lines 46, 92): requests
\* refuses a timeout <= 0 before anything is sent
timeout_rejected(t) == t <= 0

\* the exception of a refused timeout
timeout_error(t) ==
    Raise("ValueError",
          "Attempted to set connect timeout to " \o ToString(t)
              \o ", but the timeout cannot be set to a value less than or equal to 0.",
          0)

\* The clock after d more seconds.  No call reads the clock later than
\* Horizon - 1: the token and upload phase makes at most five requests and
\* one backoff sleep, and the last poll iteration begins before the deadline.
\* The clock is kept to Horizon, which NowExact shows it never reaches.
Horizon == 6 * MaxDur + BackoffSleep + MaxTimeout + PollSleepNotReady
later(t, d) == IF t + d < Horizon THEN t + d ELSE Horizon

\* a history counter of polls, which stops counting at MaxPolls
counted(n) == IF n < MaxPolls THEN n + 1 ELSE n

\* _post_with_optional_retry, line 107: where control goes with response
\* status st in hand, the refresh branch being over
AfterRefresh(st) == IF st \in OverloadStatuses THEN "backoff" ELSE "validate"

\* AfterFirstPost without the overload test on the first response
AfterFirstPost_no_backoff(st, retry) ==
    IF st \in AuthStatuses /\ retry THEN "refresh" ELSE "validate"

\* AfterFirstPost refreshing the token on an overload status too
AfterFirstPost_refresh_on_overload(st, retry) ==
    IF st \in (AuthStatuses \cup OverloadStatuses) /\ retry
    THEN "refresh"
    ELSE AfterRefresh(st)

\* _post_with_optional_retry, line 97: where control goes after the first POST
AfterFirstPost(st, retry) ==
    IF st \in AuthStatuses /\ retry THEN "refresh" ELSE AfterRefresh(st)

\* _post_with_optional_retry, lines 109-111: the response of the POST after
\* the backoff is returned whatever its status
AfterOverloadRetry(st) == "validate"

\* refreshed leaving data["csrf_token"] as it was
refreshed_stale_body(tok, hdr, body) == [header |-> tok, body |-> body, session |-> tok]

\* lines 59, 100-101: X-CSRFToken of `headers`, csrf_token of `data` and the
\* session default once _get_csrf has returned tok (hdr, body: the old values)
refreshed(tok, hdr, body) == [header |-> tok, body |-> tok, session |-> tok]

\* is_empty never rejecting
is_empty_unchecked(bytes) == FALSE

\* analyze_service.analyze, line 37: `not audio_bytes`
is_empty(bytes) == bytes = "empty"

\* the tokens one do_post() sends (line 92): X-CSRFToken of `headers`,
\* csrf_token of `data`, X-CSRFToken of the session defaults; `last` records
\* the token of the latest successful acquisition at that moment
do_post(hdr, body, sess, last) ==
    [header |-> hdr, body |-> body, session |-> sess, latest |-> last]
NoPost == do_post(Absent, Absent, Absent, Absent)

\* class of an upload response status
StatusClass(st) ==
    IF st = 200 THEN "ok"
    ELSE IF st = 401 \/ st = 403 THEN "auth"
    ELSE IF st = 429 \/ st = 500 \/ st = 502 \/ st = 503 \/ st = 504 THEN "overload"
    ELSE "other"

\* upload_result with the file_id test moved before the results test
upload_result_file_id_first(resp) ==
    IF resp.status # 200
    THEN Raise("RuntimeError", "Upload failed (" \o ToString(resp.status) \o ")", resp.status)
    ELSE IF resp.kind = "text"
    THEN Raise("RuntimeError", "Upload returned non-JSON response", 0)
    ELSE IF resp.kind # "object"
    THEN Raise("AttributeError", "'list' object has no attribute 'get'", 0)
    ELSE IF Truthy(resp.obj.file_id)
    THEN Running
    ELSE IF Truthy(resp.obj.results)
    THEN Return(resp.obj)
    ELSE Raise("RuntimeError", "No file_id in upload response", 0)

\* upload_result polling without the file_id test
upload_result_no_file_id_check(resp) ==
    IF resp.status # 200
    THEN Raise("RuntimeError", "Upload failed (" \o ToString(resp.status) \o ")", resp.status)
    ELSE IF resp.kind = "text"
    THEN Raise("RuntimeError", "Upload returned non-JSON response", 0)
    ELSE IF resp.kind # "object"
    THEN Raise("AttributeError", "'list' object has no attribute 'get'", 0)
    ELSE IF Truthy(resp.obj.results)
    THEN Return(resp.obj)
    ELSE Running

\* analyze_track, lines 198-217, applied to the final upload response:
\* the exception raised, the value returned, or Running when polling follows
upload_result(resp) ==
    IF resp.status # 200
    THEN Raise("RuntimeError", "Upload failed (" \o ToString(resp.status) \o ")", resp.status)
    ELSE IF resp.kind = "text"
    THEN Raise("RuntimeError", "Upload returned non-JSON response", 0)
    ELSE IF resp.kind # "object"
    THEN Raise("AttributeError", "'list' object has no attribute 'get'", 0)
    ELSE IF Truthy(resp.obj.results)
    THEN Return(resp.obj)
    ELSE IF ~Truthy(resp.obj.file_id)
    THEN Raise("RuntimeError", "No file_id in upload response", 0)
    ELSE Running

\* _poll_json_results, line 119: `start`, taken when the function is entered
\* at time t
poll_start(t) == t

\* poll_continues never giving up
poll_continues_forever(t, s, limit) == TRUE

\* _poll_json_results, line 120: the loop condition at time t
poll_continues(t, s, limit) == t - s < limit

\* _poll_json_results, lines 122-134, applied to one poll response: whether
\* the loop returns the parsed body, and otherwise the sleep before the next
\* iteration
poll_step(resp) ==
    IF resp.status = 200
    THEN IF StartsWith(resp.ctype, "application/json")
         THEN IF resp.kind # "text"
              THEN [done |-> TRUE, sleep |-> 0]
              ELSE [done |-> FALSE, sleep |-> PollSleepParseFailure]
         ELSE [done |-> FALSE, sleep |-> 0]
    ELSE IF resp.status \in {404, 403}
    THEN [done |-> FALSE, sleep |-> PollSleepNotReady]
    ELSE [done |-> FALSE, sleep |-> PollSleepOther]

\* Optional[...] returned by _poll_json_results
None == [some |-> FALSE, kind |-> "none", obj |-> NoObj]
Some(k, o) == [some |-> TRUE, kind |-> k, obj |-> o]

\* `if json_results:` (line 221)
TruthyResult(j) == j.some /\ (j.kind # "object" \/ TruthyObj(j.obj))

\* dict.setdefault of file_id and filename (lines 222-223)
setdefaults(o, fid, fname) ==
    [o EXCEPT !.file_id = IF o.file_id = Absent THEN fid ELSE o.file_id,
              !.filename = IF o.filename = Absent THEN fname ELSE o.filename]

\* _visuals_fallback
visuals_fallback(fid, fname) ==
    LET static == BASE \o "/static/uploads/" \o fid
    IN  Obj(Absent, fid, fname, "visuals_ready_only",
            { <<"waveform",      static \o "/waveform.png">>,
              <<"spectrogram",   static \o "/spectrogram.png">>,
              <<"spectrum",      static \o "/spectrum.png">>,
              <<"chromagram",    static \o "/chromagram.png">>,
              <<"stereo_field",  static \o "/stereo_field.png">>,
              <<"vectorscope",   static \o "/vectorscope.png">>,
              <<"dynamic_range", static \o "/dynamic_range.png">>,
              <<"spatial_field", static \o "/spatial_field.png">> })

\* analyze_track, lines 221-227, applied to what polling returned
finalize_result(j, fid, fname) ==
    IF TruthyResult(j)
    THEN IF j.kind = "object"
         THEN Return(setdefaults(j.obj, fid, fname))
         ELSE Raise("AttributeError", "'list' object has no attribute 'setdefault'", 0)
    ELSE Return(visuals_fallback(fid, fname))

\* fe_response leaving the exception's type name out of the detail
fe_response_message_only(out) ==
    IF out.kind = "return"
    THEN [status |-> 200, body |-> out.value, detail |-> ""]
    ELSE [status |-> 500, body |-> NoObj, detail |-> out.msg]

\* analyze_service.analyze, lines 48-57: the HTTP response for an outcome
fe_response(out) ==
    IF out.kind = "return"
    THEN [status |-> 200, body |-> out.value, detail |-> ""]
    ELSE [status |-> 500, body |-> NoObj, detail |-> out.etype \o ": " \o out.msg]


(***************************************************************************)
(* Two calls of analyze_track running together (the front end serves       *)
(* requests concurrently; each request calls analyze_track once).          *)
(***************************************************************************)
Calls == {1, 2}
OtherCall(c) == 3 - c

\* the filename argument of call c
PairFilename(c) == "song" \o ToString(c) \o ".wav"

\* the host never issues the same token or file_id twice
FreshToken(n) == "tok" \o ToString(n + 1)
FreshFileId(n) == "file" \o ToString(n + 1)

\* a requests.Session as _new_session leaves it: BASE_HEADERS copied into
\* its headers, no X-CSRFToken default yet, empty cookie jar
EmptySession == [xcsrf |-> Absent, cookie |-> Absent]

\* what one HTTP request of a call carries
Request(k, hdr, body, sess, fname, fid) ==
    [kind |-> k, header |-> hdr, body |-> body, session |-> sess.xcsrf,
     cookie |-> sess.cookie, filename |-> fname, file_id |-> fid]
NoRequest == Request("none", Absent, Absent, EmptySession, Absent, Absent)

\* new_session handing every call one module-level Session
new_session_shared(c, heap) == [id |-> 1, heap |-> heap]

\* _new_session (lines 29-37, called at line 169): a Session object of the
\* call's own, created on the heap of Session objects
new_session(c, heap) == [id |-> c, heap |-> [heap EXCEPT ![c] = EmptySession]]

\* the locals of call c when analyze_track is entered
EnteredCall(c) ==
    [pc |-> "analyze_track", session |-> 0, hdr |-> Absent, data |-> Absent,
     filename |-> PairFilename(c), r |-> NoResponse, file_id |-> Absent,
     json |-> None, out |-> Running,
     latest |-> Absent, mine |-> {}, req |-> NoRequest]

\* answers of the host to an upload when it has assigned n file_ids so far
PairUploadResponses(n) ==
    { Response(200, "application/json", "object",
               Obj(Absent, FreshFileId(n), Absent, Absent, {})),
      Response(200, "application/json", "object",
               Obj("R", Absent, Absent, Absent, {})),
      Response(403, "text/html", "text", NoObj),
      Response(503, "text/html", "text", NoObj),
      NetError }

\* answers of the host to a poll
PairPollResponses ==
    { Response(404, "text/html", "text", NoObj),
      Response(200, "text/html", "text", NoObj),
      Response(200, "application/json", "object",
               Obj("R", Absent, Absent, Absent, {})),
      NetError }

\* answers of the host to GET /csrf-token when it has issued n tokens so far
PairCsrfResponses(n) ==
    { CsrfResponse(200, "object",
                   [csrf_token |-> FreshToken(n), csrfToken |-> Absent]),
      CsrfNetError }

PairInit ==
    /\ calls = [c \in Calls |-> EnteredCall(c)]
    /\ sessions = [s \in Calls |-> EmptySession]
    /\ issued = 0
    /\ uploaded = 0


(***************************************************************************)
(* Initial states: one request, not yet started.                           *)
(***************************************************************************)
Init ==
    /\ caller \in {"frontend", "direct"}
    /\ timeout \in Timeouts
    /\ IF caller = "frontend"
       THEN /\ song_read \in {"data", "empty", "ioerror"}
            /\ song_filename \in {Absent, "song.wav"}
            /\ file_bytes = Absent
            /\ filename = Absent
            /\ retry_csrf = TRUE
            /\ pc = "fe_read"
       ELSE /\ song_read = Absent
            /\ song_filename = Absent
            /\ file_bytes \in {"data", "empty"}
            /\ filename = "track.flac"
            /\ retry_csrf \in BOOLEAN
            /\ pc = "analyze_track"
    /\ now = 0
    /\ session_open = FALSE
    /\ session_token = Absent
    /\ hdr_token = Absent
    /\ data_token = Absent
    /\ cr = NoCsrfResponse
    /\ r = NoResponse
    /\ pr = NoResponse
    /\ start = 0
    /\ file_id = Absent
    /\ json_results = None
    /\ outcome = Running
    /\ fe = NoFe
    /\ latest = Absent
    /\ last_post = NoPost
    /\ nPost = 0
    /\ last_status = 0
    /\ nGet = 0
    /\ nPoll = 0
    /\ nNonTerminal = 0
    /\ poll_began = 0
    /\ last_poll_at = 0
    /\ last_sleep = 0
    /\ backoff = <<>>
    /\ first_class = "none"
    /\ PairInit

inputs == <<caller, song_read, song_filename, timeout, retry_csrf>>
args == <<file_bytes, filename>>
tokens == <<session_token, hdr_token, data_token>>
polling == <<pr, start, file_id, json_results, nPoll, nNonTerminal,
             poll_began, last_poll_at, last_sleep>>
uploads == <<r, last_post, nPost, last_status, backoff, first_class>>

(***************************************************************************)
(* analyze_service.analyze, lines 35-47: read the upload, reject an empty  *)
(* one, else call the client with retry_csrf=True.                         *)
(***************************************************************************)
analyze_read ==
    /\ pc = "fe_read"
    /\ IF song_read = "ioerror"
       THEN /\ fe' = fe_response(Raise("Exception", "read failed", 0))
            /\ pc' = "done"
            /\ UNCHANGED args
       ELSE IF is_empty(song_read)
       THEN /\ fe' = fe_response(Raise("ValueError", "Uploaded file is empty", 0))
            /\ pc' = "done"
            /\ UNCHANGED args
       ELSE /\ file_bytes' = song_read
            /\ filename' = PyOr(song_filename, DefaultFilename)
            /\ pc' = "analyze_track"
            /\ UNCHANGED fe
    /\ UNCHANGED pairvars
    /\ UNCHANGED <<inputs, now, session_open, tokens, cr, uploads, polling,
                   outcome, latest, nGet>>

(***************************************************************************)
(* analyze_track, lines 169-186: new session, initial _get_csrf, headers   *)
(* and body of the upload.  A timeout <= 0 is refused by session.get       *)
(* (line 46) with nothing sent, so every later request of a call is made   *)
(* with a timeout > 0.                                                     *)
(***************************************************************************)
analyze_track_csrf ==
    /\ pc = "analyze_track"
    /\ session_open' = TRUE
    /\ IF timeout_rejected(csrf_timeout(timeout))
       THEN /\ outcome' = timeout_error(csrf_timeout(timeout))
            /\ pc' = "returned"
            /\ UNCHANGED <<cr, now, nGet, tokens, latest>>
       ELSE \E resp \in CsrfResponses, d \in Durations :
               LET g == get_csrf(resp)
               IN  /\ cr' = resp
                   /\ now' = now + d
                   /\ nGet' = nGet + 1
                   /\ IF g.ok
                      THEN /\ session_token' = g.token
                           /\ hdr_token' = g.token
                           /\ data_token' = g.token
                           /\ latest' = g.token
                           /\ pc' = "post1"
                           /\ UNCHANGED outcome
                      ELSE /\ outcome' = g.exc
                           /\ pc' = "returned"
                           /\ UNCHANGED <<tokens, latest>>
    /\ UNCHANGED pairvars
    /\ UNCHANGED <<inputs, args, uploads, polling, fe>>

(***************************************************************************)
(* _post_with_optional_retry                                               *)
(***************************************************************************)
\* line 94: the first POST
upload_post_first ==
    /\ pc = "post1"
    /\ last_post' = do_post(hdr_token, data_token, session_token, latest)
    /\ nPost' = nPost + 1
    /\ \E resp \in UploadResponses, d \in Durations :
          /\ now' = now + d
          /\ last_status' = resp.status
          /\ IF resp.net = "error"
             THEN /\ outcome' = NetworkFailure
                  /\ pc' = "returned"
                  /\ UNCHANGED <<r, first_class>>
             ELSE /\ r' = resp
                  /\ first_class' = StatusClass(resp.status)
                  /\ pc' = AfterFirstPost(resp.status, retry_csrf)
                  /\ UNCHANGED outcome
    /\ UNCHANGED pairvars
    /\ UNCHANGED <<inputs, args, session_open, tokens, cr, backoff, polling,
                   fe, latest, nGet>>

\* refresh_csrf without the try/except: a failed refresh ends the call
refresh_csrf_unguarded ==
    /\ pc = "refresh"
    /\ \E resp \in CsrfResponses, d \in Durations :
          LET g == get_csrf(resp)
          IN  /\ cr' = resp
              /\ now' = now + d
              /\ nGet' = nGet + 1
              /\ IF g.ok
                 THEN /\ LET t == refreshed(g.token, hdr_token, data_token)
                         IN  /\ session_token' = t.session
                             /\ hdr_token' = t.header
                             /\ data_token' = t.body
                      /\ latest' = g.token
                      /\ pc' = "post2"
                      /\ UNCHANGED outcome
                 ELSE /\ outcome' = g.exc
                      /\ pc' = "returned"
                      /\ UNCHANGED <<tokens, latest>>
    /\ UNCHANGED pairvars
    /\ UNCHANGED <<inputs, args, session_open, uploads, polling, fe>>

\* lines 98-101 and 103-104: refresh the token; a failure is swallowed
refresh_csrf ==
    /\ pc = "refresh"
    /\ \E resp \in CsrfResponses, d \in Durations :
          LET g == get_csrf(resp)
          IN  /\ cr' = resp
              /\ now' = now + d
              /\ nGet' = nGet + 1
              /\ IF g.ok
                 THEN /\ LET t == refreshed(g.token, hdr_token, data_token)
                         IN  /\ session_token' = t.session
                             /\ hdr_token' = t.header
                             /\ data_token' = t.body
                      /\ latest' = g.token
                      /\ pc' = "post2"
                 ELSE /\ pc' = AfterRefresh(r.status)
                      /\ UNCHANGED <<tokens, latest>>
    /\ UNCHANGED pairvars
    /\ UNCHANGED <<inputs, args, session_open, uploads, polling, outcome, fe>>

\* lines 102-104: the POST after a refresh; a failure is swallowed
upload_post_retry ==
    /\ pc = "post2"
    /\ last_post' = do_post(hdr_token, data_token, session_token, latest)
    /\ nPost' = nPost + 1
    /\ \E resp \in UploadResponses, d \in Durations :
          /\ now' = now + d
          /\ last_status' = resp.status
          /\ IF resp.net = "error"
             THEN /\ pc' = AfterRefresh(r.status)
                  /\ UNCHANGED r
             ELSE /\ r' = resp
                  /\ pc' = AfterRefresh(resp.status)
    /\ UNCHANGED pairvars
    /\ UNCHANGED <<inputs, args, session_open, tokens, cr, backoff,
                   first_class, polling, outcome, fe, latest, nGet>>

\* line 108: time.sleep(2)
backoff_sleep ==
    /\ pc = "backoff"
    /\ now' = now + BackoffSleep
    /\ backoff' = Append(backoff, BackoffSleep)
    /\ pc' = "post3"
    /\ UNCHANGED pairvars
    /\ UNCHANGED <<inputs, args, session_open, tokens, cr, r, last_post, nPost,
                   last_status, first_class, polling, outcome, fe, latest, nGet>>

\* line 109: the POST after the backoff
upload_post_overload ==
    /\ pc = "post3"
    /\ last_post' = do_post(hdr_token, data_token, session_token, latest)
    /\ nPost' = nPost + 1
    /\ \E resp \in UploadResponses, d \in Durations :
          /\ now' = now + d
          /\ last_status' = resp.status
          /\ IF resp.net = "error"
             THEN /\ outcome' = NetworkFailure
                  /\ pc' = "returned"
                  /\ UNCHANGED r
             ELSE /\ r' = resp
                  /\ pc' = AfterOverloadRetry(resp.status)
                  /\ UNCHANGED outcome
    /\ UNCHANGED pairvars
    /\ UNCHANGED <<inputs, args, session_open, tokens, cr, backoff,
                   first_class, polling, fe, latest, nGet>>

(***************************************************************************)
(* analyze_track, lines 198-220, and _poll_json_results, lines 118-119:    *)
(* validate the final upload response; return, raise, or start polling.    *)
(***************************************************************************)
validate_upload ==
    /\ pc = "validate"
    /\ LET u == upload_result(r)
       IN  IF u.kind = "none"
           THEN /\ file_id' = r.obj.file_id
                /\ start' = poll_start(now)
                /\ poll_began' = now
                /\ pc' = "poll"
                /\ UNCHANGED outcome
           ELSE /\ outcome' = u
                /\ pc' = "returned"
                /\ UNCHANGED <<file_id, start, poll_began>>
    /\ UNCHANGED pairvars
    /\ UNCHANGED <<inputs, args, now, session_open, tokens, cr, uploads, pr,
                   json_results, nPoll, nNonTerminal, last_poll_at, last_sleep,
                   fe, latest, nGet>>

(***************************************************************************)
(* _poll_json_results                                                      *)
(***************************************************************************)
\* lines 120-129: the loop test and the GET of one iteration, up to the
\* return, the exception, the sleep that follows, or (a 200 answer whose
\* content type is not JSON) straight back to the loop test
poll_request ==
    /\ pc = "poll"
    /\ poll_continues(now, start, timeout)
    /\ nPoll' = counted(nPoll)
    /\ last_poll_at' = now
    /\ \E resp \in PollResponses, d \in Durations :
          /\ pr' = resp
          /\ now' = later(now, d)
          /\ IF resp.net = "error"
             THEN /\ outcome' = NetworkFailure
                  /\ pc' = "returned"
                  /\ last_sleep' = 0
                  /\ UNCHANGED <<json_results, nNonTerminal>>
             ELSE LET p == poll_step(resp)
                  IN  IF p.done
                      THEN /\ json_results' = Some(resp.kind, resp.obj)
                           /\ pc' = "finalize"
                           /\ last_sleep' = 0
                           /\ UNCHANGED <<outcome, nNonTerminal>>
                      ELSE IF p.sleep = 0
                      THEN /\ nNonTerminal' = counted(nNonTerminal)
                           /\ last_sleep' = 0
                           /\ pc' = "poll"
                           /\ UNCHANGED <<outcome, json_results>>
                      ELSE /\ pc' = "poll_sleep"
                           /\ UNCHANGED <<outcome, json_results, nNonTerminal,
                                          last_sleep>>
    /\ UNCHANGED pairvars
    /\ UNCHANGED <<inputs, args, session_open, tokens, cr, uploads, start,
                   poll_began, file_id, fe, latest, nGet>>

\* lines 128, 131, 134: time.sleep after a poll that did not end the loop
poll_sleep ==
    /\ pc = "poll_sleep"
    /\ now' = later(now, poll_step(pr).sleep)
    /\ last_sleep' = poll_step(pr).sleep
    /\ nNonTerminal' = counted(nNonTerminal)
    /\ pc' = "poll"
    /\ UNCHANGED pairvars
    /\ UNCHANGED <<inputs, args, session_open, tokens, cr, uploads, pr, start,
                   file_id, json_results, nPoll, poll_began, last_poll_at,
                   outcome, fe, latest, nGet>>

\* lines 120 and 135: the deadline has passed
poll_timeout ==
    /\ pc = "poll"
    /\ ~poll_continues(now, start, timeout)
    /\ json_results' = None
    /\ pc' = "finalize"
    /\ UNCHANGED pairvars
    /\ UNCHANGED <<inputs, args, now, session_open, tokens, cr, uploads, pr,
                   start, file_id, nPoll, nNonTerminal, poll_began,
                   last_poll_at, last_sleep, outcome, fe, latest, nGet>>

(***************************************************************************)
(* analyze_track, lines 221-227                                            *)
(***************************************************************************)
finalize ==
    /\ pc = "finalize"
    /\ outcome' = finalize_result(json_results, file_id, filename)
    /\ pc' = "returned"
    /\ UNCHANGED pairvars
    /\ UNCHANGED <<inputs, args, now, session_open, tokens, cr, uploads,
                   polling, fe, latest, nGet>>

(***************************************************************************)
(* analyze_service.analyze, lines 48-57: answer the HTTP request           *)
(***************************************************************************)
analyze_respond ==
    /\ pc = "returned"
    /\ caller = "frontend"
    /\ fe' = fe_response(outcome)
    /\ pc' = "done"
    /\ UNCHANGED pairvars
    /\ UNCHANGED <<inputs, args, now, session_open, tokens, cr, uploads,
                   polling, outcome, latest, nGet>>

Next ==
    \/ analyze_read
    \/ analyze_track_csrf
    \/ upload_post_first
    \/ refresh_csrf
    \/ upload_post_retry
    \/ backoff_sleep
    \/ upload_post_overload
    \/ validate_upload
    \/ poll_request
    \/ poll_sleep
    \/ poll_timeout
    \/ finalize
    \/ analyze_respond

Spec == Init /\ [][Next]_vars

(***************************************************************************)
(* The same program run to completion.  The call is sequential and always  *)
(* runnable, and every blocking call returns (a response, or the exception *)
(* of its timeout): weak fairness of Next.  The clock advances: a poll     *)
(* iteration may take less than a second, any number of times in a row (a  *)
(* 200 answer that is not JSON is followed by no sleep), but not for ever: *)
(* strong fairness of the poll round trips that take a second.             *)
(***************************************************************************)
poll_request_takes_time ==
    /\ poll_request
    /\ now' > now

SpecLive ==
    /\ Init
    /\ [][Next]_vars
    /\ WF_vars(Next)
    /\ SF_vars(poll_request_takes_time)

(***************************************************************************)
(* Two concurrent calls of analyze_track, interleaved at every request.    *)
(* Each step is one request of one call with what the call does with the   *)
(* answer, computed by the operators of the single call above.  The clock  *)
(* is left out: both calls have a timeout > 0 and the poll loop may meet   *)
(* its deadline at any iteration.                                          *)
(***************************************************************************)
\* the single request of the first part of the module, not running
NoSingleCall ==
    /\ caller = "direct"
    /\ timeout = 0
    /\ song_read = Absent
    /\ song_filename = Absent
    /\ file_bytes = "data"
    /\ filename = "track.flac"
    /\ retry_csrf = TRUE
    /\ pc = "none"
    /\ now = 0
    /\ session_open = FALSE
    /\ session_token = Absent
    /\ hdr_token = Absent
    /\ data_token = Absent
    /\ cr = NoCsrfResponse
    /\ r = NoResponse
    /\ pr = NoResponse
    /\ start = 0
    /\ file_id = Absent
    /\ json_results = None
    /\ outcome = Running
    /\ fe = NoFe
    /\ latest = Absent
    /\ last_post = NoPost
    /\ nPost = 0
    /\ last_status = 0
    /\ nGet = 0
    /\ nPoll = 0
    /\ nNonTerminal = 0
    /\ poll_began = 0
    /\ last_poll_at = 0
    /\ last_sleep = 0
    /\ backoff = <<>>
    /\ first_class = "none"

InitPair ==
    /\ NoSingleCall
    /\ PairInit

\* lines 169-186: call c creates its session, fetches its token, builds its
\* headers and body
pair_analyze_track_csrf(c) ==
    /\ calls[c].pc = "analyze_track"
    /\ \E resp \in PairCsrfResponses(issued) :
          LET ns == new_session(c, sessions)
              g == get_csrf(resp)
              t == refreshed(g.token, Absent, Absent)
          IN  /\ issued' = IF resp.net = "ok" THEN issued + 1 ELSE issued
              /\ IF g.ok
                 THEN /\ sessions' = [ns.heap EXCEPT ![ns.id] =
                                         [xcsrf |-> t.session, cookie |-> g.token]]
                      /\ calls' = [calls EXCEPT ![c] =
                            [@ EXCEPT !.session = ns.id,
                                      !.req = Request("csrf", Absent, Absent,
                                                      ns.heap[ns.id], Absent, Absent),
                                      !.hdr = t.header,
                                      !.data = t.body,
                                      !.latest = g.token,
                                      !.mine = @ \cup {g.token},
                                      !.pc = "post1"]]
                 ELSE /\ sessions' = ns.heap
                      /\ calls' = [calls EXCEPT ![c] =
                            [@ EXCEPT !.session = ns.id,
                                      !.req = Request("csrf", Absent, Absent,
                                                      ns.heap[ns.id], Absent, Absent),
                                      !.out = g.exc,
                                      !.pc = "returned"]]
    /\ UNCHANGED uploaded
    /\ UNCHANGED callvars

\* lines 91-92: one do_post() of call c, the first (line 94), the one after
\* a refresh (line 102) or the one after the backoff (line 109)
pair_do_post(c) ==
    /\ calls[c].pc \in {"post1", "post2", "post3"}
    /\ \E resp \in PairUploadResponses(uploaded) :
          LET me == calls[c]
              p == do_post(me.hdr, me.data, sessions[me.session].xcsrf, me.latest)
              sent == [Request("upload", p.header, p.body, sessions[me.session],
                               me.filename, Absent) EXCEPT !.session = p.session]
              swallowed == resp.net = "error" /\ me.pc = "post2"
              raised == resp.net = "error" /\ me.pc # "post2"
              got == IF resp.net = "error" THEN me.r ELSE resp
              next == IF raised THEN "returned"
                      ELSE IF me.pc = "post1" THEN AfterFirstPost(got.status, TRUE)
                      ELSE IF me.pc = "post2" THEN AfterRefresh(got.status)
                      ELSE AfterOverloadRetry(got.status)
          IN  /\ calls' = [calls EXCEPT ![c] =
                    [@ EXCEPT !.req = sent,
                              !.r = got,
                              !.out = IF raised THEN NetworkFailure ELSE @,
                              !.pc = next]]
              /\ uploaded' = IF Truthy(resp.obj.file_id) THEN uploaded + 1 ELSE uploaded
    /\ UNCHANGED <<sessions, issued>>
    /\ UNCHANGED callvars

\* lines 98-101 and 103-104: the refresh of call c
pair_refresh_csrf(c) ==
    /\ calls[c].pc = "refresh"
    /\ \E resp \in PairCsrfResponses(issued) :
          LET me == calls[c]
              g == get_csrf(resp)
              t == refreshed(g.token, me.hdr, me.data)
              sent == Request("csrf", Absent, Absent, sessions[me.session],
                              Absent, Absent)
          IN  /\ issued' = IF resp.net = "ok" THEN issued + 1 ELSE issued
              /\ IF g.ok
                 THEN /\ sessions' = [sessions EXCEPT ![me.session] =
                                         [xcsrf |-> t.session, cookie |-> g.token]]
                      /\ calls' = [calls EXCEPT ![c] =
                            [@ EXCEPT !.req = sent,
                                      !.hdr = t.header,
                                      !.data = t.body,
                                      !.latest = g.token,
                                      !.mine = @ \cup {g.token},
                                      !.pc = "post2"]]
                 ELSE /\ sessions' = sessions
                      /\ calls' = [calls EXCEPT ![c] =
                            [@ EXCEPT !.req = sent,
                                      !.pc = AfterRefresh(me.r.status)]]
    /\ UNCHANGED uploaded
    /\ UNCHANGED callvars

\* line 108: the backoff of call c
pair_backoff_sleep(c) ==
    /\ calls[c].pc = "backoff"
    /\ calls' = [calls EXCEPT ![c] = [@ EXCEPT !.pc = "post3"]]
    /\ UNCHANGED <<sessions, issued, uploaded>>
    /\ UNCHANGED callvars

\* lines 198-220: call c validates its upload response
pair_validate_upload(c) ==
    /\ calls[c].pc = "validate"
    /\ LET me == calls[c]
           u == upload_result(me.r)
       IN  calls' = [calls EXCEPT ![c] =
              IF u.kind = "none"
              THEN [@ EXCEPT !.file_id = me.r.obj.file_id, !.pc = "poll"]
              ELSE [@ EXCEPT !.out = u, !.pc = "returned"]]
    /\ UNCHANGED <<sessions, issued, uploaded>>
    /\ UNCHANGED callvars

\* lines 120-129: the GET of one poll iteration of call c
pair_poll_request(c) ==
    /\ calls[c].pc = "poll"
    /\ \E resp \in PairPollResponses :
          LET me == calls[c]
              sent == Request("poll", Absent, Absent, sessions[me.session],
                              Absent, me.file_id)
          IN  calls' = [calls EXCEPT ![c] =
                 IF resp.net = "error"
                 THEN [@ EXCEPT !.req = sent,
                                !.out = NetworkFailure, !.pc = "returned"]
                 ELSE IF poll_step(resp).done
                 THEN [@ EXCEPT !.req = sent,
                                !.json = Some(resp.kind, resp.obj),
                                !.pc = "finalize"]
                 ELSE IF poll_step(resp).sleep = 0
                 THEN [@ EXCEPT !.req = sent]
                 ELSE [@ EXCEPT !.req = sent, !.pc = "poll_sleep"]]
    /\ UNCHANGED <<sessions, issued, uploaded>>
    /\ UNCHANGED callvars

\* lines 128, 131, 134: call c sleeps after a poll that did not end the loop
pair_poll_sleep(c) ==
    /\ calls[c].pc = "poll_sleep"
    /\ calls' = [calls EXCEPT ![c] = [@ EXCEPT !.pc = "poll"]]
    /\ UNCHANGED <<sessions, issued, uploaded>>
    /\ UNCHANGED callvars

\* lines 120 and 135: the deadline of call c has passed
pair_poll_timeout(c) ==
    /\ calls[c].pc = "poll"
    /\ calls' = [calls EXCEPT ![c] = [@ EXCEPT !.json = None, !.pc = "finalize"]]
    /\ UNCHANGED <<sessions, issued, uploaded>>
    /\ UNCHANGED callvars

\* lines 221-227: call c returns
pair_finalize(c) ==
    /\ calls[c].pc = "finalize"
    /\ calls' = [calls EXCEPT ![c] =
          [@ EXCEPT !.out = finalize_result(calls[c].json, calls[c].file_id,
                                            calls[c].filename),
                    !.pc = "returned"]]
    /\ UNCHANGED <<sessions, issued, uploaded>>
    /\ UNCHANGED callvars

NextPair ==
    \E c \in Calls :
        \/ pair_analyze_track_csrf(c)
        \/ pair_do_post(c)
        \/ pair_refresh_csrf(c)
        \/ pair_backoff_sleep(c)
        \/ pair_validate_upload(c)
        \/ pair_poll_request(c)
        \/ pair_poll_sleep(c)
        \/ pair_poll_timeout(c)
        \/ pair_finalize(c)

SpecPair == InitPair /\ [][NextPair]_vars



(***************************************************************************)
(* Properties                                                              *)
(***************************************************************************)
\* analyze_track has returned or raised
ClientEnded == outcome.kind # "none"

\* the upload phase of analyze_track's call of _post_with_optional_retry is over
UploadPhaseOver ==
    pc \in {"validate", "poll", "poll_sleep", "finalize", "returned", "done"}

\* the latest poll response is 200 with a JSON content-type and a body that
\* parses as JSON
PolledValidJson ==
    /\ pr.net = "ok"
    /\ pr.status = 200
    /\ StartsWith(pr.ctype, "application/json")
    /\ pr.kind # "text"

VisNames ==
    {"waveform", "spectrogram", "spectrum", "chromagram", "stereo_field",
     "vectorscope", "dynamic_range", "spatial_field"}

\* the fallback mapping as the specification describes it
SpecFallback(fid, fname) ==
    Obj(Absent, fid, fname, "visuals_ready_only",
        { <<n, BASE \o "/static/uploads/" \o fid \o "/" \o n \o ".png">> : n \in VisNames })

\* the clock of the model is the clock of the program: it stays below Horizon
NowExact == now < Horizon

\* C1: once the upload has yielded a file_id, analyze_track never raises:
\* whatever the polls do (network failures included) it returns the polled
\* JSON result or the visuals fallback.
C1_PollingNeverRaises ==
    file_id # Absent =>
        /\ outcome.kind # "raise"
        /\ outcome.kind = "return" =>
              \/ outcome.value = SpecFallback(file_id, filename)
              \/ PolledValidJson /\ outcome.value = setdefaults(pr.obj, file_id, filename)

\* C2: a final upload response that is 200 with a JSON object whose `results`
\* is non-empty is returned unchanged, and no poll request is issued, whether
\* or not it carries a file_id.
C2_CachedResultVerbatim ==
    (r.net = "ok" /\ r.status = 200 /\ r.kind = "object" /\ Truthy(r.obj.results)) =>
        /\ nPoll = 0
        /\ pc \notin {"poll", "poll_sleep", "finalize"}
        /\ ClientEnded => outcome = Return(r.obj)

C2_Witness ==
    /\ ClientEnded
    /\ r.status = 200
    /\ r.obj.results = "R"
    /\ r.obj.file_id = "f1"
    /\ outcome = Return(r.obj)

\* C3: when the Nth poll is the first to return 200 with a JSON content-type
\* and valid JSON (here: a JSON object), exactly N polls are issued and that
\* JSON is returned with file_id and filename added where absent.
C3_NthPollReturned ==
    (ClientEnded /\ PolledValidJson /\ pr.kind = "object") =>
        /\ nPoll < MaxPolls => nPoll = nNonTerminal + 1
        /\ outcome = Return(setdefaults(pr.obj, file_id, filename))

\* C4: if no poll returns valid JSON, analyze_track returns the fallback
\* mapping: file_id and filename of the call, status "visuals_ready_only" and
\* the eight visualization URLs {base}/static/uploads/{file_id}/{name}.png.
C4_FallbackWhenNoJson ==
    (ClientEnded /\ file_id # Absent /\ ~json_results.some) =>
        outcome = Return(SpecFallback(file_id, filename))


\* C5: each retry condition fires at most once: at most one refresh (only
\* after a 401/403, only with retry enabled) and at most one backoff sleep
\* (only after a 429/500/502/503/504); so at most 3 POSTs and 2 token GETs,
\* and with retry disabled at most 2 POSTs and exactly 1 token GET.
C5_AtMostOneRetryPerCondition ==
    /\ nPost <= 3
    /\ nGet <= 2
    /\ Len(backoff) <= 1
    /\ nGet = 2 => retry_csrf /\ first_class = "auth"
    /\ pc = "refresh" => retry_csrf /\ nGet = 1 /\ nPost = 1 /\ r.status \in {401, 403}
    /\ pc = "post2" => nGet = 2 /\ nPost = 1
    /\ pc = "backoff" => backoff = <<>> /\ r.status \in {429, 500, 502, 503, 504}
    /\ pc = "post3" => r.status \in {429, 500, 502, 503, 504}
    /\ Len(backoff) = 0 => nPost <= 2
    /\ nGet = 1 => nPost <= 2
    /\ ~retry_csrf =>
          /\ nPost <= 2
          /\ pc # "analyze_track" => nGet = 1

\* C6: every upload POST carries, in its X-CSRFToken header, in the
\* csrf_token field of its body and in the session-default X-CSRFToken, the
\* token of the latest successful token acquisition of the call.
C6_PostCarriesLatestToken ==
    nPost > 0 =>
        /\ last_post.latest # Absent
        /\ last_post.header = last_post.latest
        /\ last_post.body = last_post.latest
        /\ last_post.session = last_post.latest

\* a POST after a 401/403 and a successful refresh that returned tokB
C6_Witness ==
    /\ first_class = "auth"
    /\ nGet = 2
    /\ nPost = 2
    /\ cr.obj.csrf_token = Absent
    /\ last_post.latest = TokenB
    /\ last_post.body = TokenB

\* C7: when the first POST returns 429/500/502/503/504 there is no token
\* refresh, exactly one sleep of 2 seconds and exactly one more POST, whose
\* response is the final upload response; a 200 there is a successful upload.
C7_OverloadRetriedOnce ==
    (first_class = "overload" /\ UploadPhaseOver) =>
        /\ nGet = 1
        /\ backoff = <<2>>
        /\ nPost = 2
        /\ last_status # 0 => r.status = last_status
        /\ (ClientEnded /\ r.status = 200) =>
              ~(outcome.kind = "raise" /\ StartsWith(outcome.msg, "Upload failed"))
        /\ (ClientEnded /\ r.status = 200 /\ r.kind = "object" /\ Truthy(r.obj.results)) =>
              outcome = Return(r.obj)

C7_Witness ==
    /\ first_class = "overload"
    /\ nPost = 2
    /\ r.status = 200
    /\ outcome.kind = "return"

\* the token a CSRF response body carries, csrf_token first
CarriedToken(resp) ==
    IF Truthy(resp.obj.csrf_token) THEN resp.obj.csrf_token ELSE resp.obj.csrfToken

CarriesToken(resp) ==
    /\ resp.net = "ok"
    /\ resp.kind = "object"
    /\ Truthy(resp.obj.csrf_token) \/ Truthy(resp.obj.csrfToken)

ProtocolError == outcome.kind = "raise" /\ outcome.etype = "RuntimeError"

\* C8 as stated: acquisition succeeds whenever the CSRF response JSON carries
\* a token under either key; with neither key, or a body that is not JSON,
\* the initial acquisition fails with a protocol error and nothing is posted
\* or polled.
C8_AsStated ==
    /\ CarriesToken(cr) => latest = CarriedToken(cr)
    /\ (nGet = 1 /\ cr.net = "ok" /\ ~CarriesToken(cr) /\ cr.kind # "array") =>
          ProtocolError /\ nPost = 0 /\ nPoll = 0

\* C8 (amended): for a CSRF response whose status is not an HTTP error
\* (< 400): a JSON object carrying a non-empty token under csrf_token or
\* csrfToken yields that token; a JSON object with no such token, or a body
\* that is not JSON, makes the initial acquisition fail with a protocol error,
\* analyze_track fail, and nothing be posted or polled.
C8_TokenExtraction ==
    (cr.net = "ok" /\ cr.status < 400) =>
        /\ CarriesToken(cr) =>
              /\ latest = CarriedToken(cr)
              /\ session_token = CarriedToken(cr)
              /\ (nGet = 1 /\ nPost = 0) => ~ClientEnded
        /\ (nGet = 1 /\ ~CarriesToken(cr) /\ cr.kind # "array") =>
              /\ ProtocolError
              /\ nPost = 0
              /\ nPoll = 0
              /\ latest = Absent

\* the initial acquisition took the token from csrfToken
C8_Witness ==
    /\ nGet = 1
    /\ cr.status = 200
    /\ cr.obj.csrf_token = Empty
    /\ cr.obj.csrfToken = TokenB
    /\ latest = TokenB
    /\ pc = "post1"

\* C9: a POST /analyze whose uploaded file is empty is answered 500 with a
\* detail naming ValueError, the client is not invoked and no network call is
\* made.
C9_EmptyUploadRejected ==
    (caller = "frontend" /\ song_read = "empty") =>
        /\ pc \in {"fe_read", "done"}
        /\ ~ClientEnded
        /\ ~session_open
        /\ nGet = 0 /\ nPost = 0 /\ nPoll = 0
        /\ pc = "done" => fe.status = 500 /\ StartsWith(fe.detail, "ValueError: ")

C9_Witness ==
    /\ caller = "frontend"
    /\ song_read = "empty"
    /\ pc = "done"
    /\ fe.status = 500

\* C10: analyze_track called with empty audio bytes raises before any network
\* call: no token GET and no upload POST is issued for an empty byte sequence.
C10_ClientRejectsEmpty ==
    file_bytes = "empty" =>
        /\ nGet = 0
        /\ nPost = 0
        /\ ClientEnded => outcome.kind = "raise"


\* C11: every POST /analyze ends in exactly one of two responses: 200 with
\* the client's result mapping (whichever variant) when the client returns,
\* or 500 with detail "<ErrorKind>: <message>" on any failure (empty file,
\* failed read, any exception of the client); no exception escapes.
C11_FrontEndResponses ==
    caller = "frontend" =>
        /\ (fe.status # 0) <=> (pc = "done")
        /\ pc = "returned" => ENABLED analyze_respond
        /\ pc = "done" =>
              \/ /\ fe.status = 200
                 /\ outcome.kind = "return"
                 /\ fe.body = outcome.value
                 /\ fe.detail = ""
              \/ /\ fe.status = 500
                 /\ outcome.kind = "raise"
                 /\ fe.detail = outcome.etype \o ": " \o outcome.msg
              \/ /\ fe.status = 500
                 /\ outcome.kind = "none"
                 /\ song_read = "empty"
                 /\ fe.detail = "ValueError: Uploaded file is empty"
              \/ /\ fe.status = 500
                 /\ outcome.kind = "none"
                 /\ song_read = "ioerror"
                 /\ StartsWith(fe.detail, "Exception: ")

\* an upstream HTTP error reported as a 500
C11_Witness ==
    /\ caller = "frontend"
    /\ pc = "done"
    /\ fe.status = 500
    /\ outcome.etype = "RuntimeError"
    /\ outcome.code = 404

\* the token refresh after a 401/403 failed (network error, HTTP error, body
\* that is not JSON or carries no token)
RefreshFailed ==
    /\ nGet = 2
    /\ ~(cr.net = "ok" /\ cr.status < 400 /\ CarriesToken(cr))

UploadError(code) ==
    /\ outcome.kind = "raise"
    /\ outcome.etype = "RuntimeError"
    /\ StartsWith(outcome.msg, "Upload failed")
    /\ outcome.code = code

\* C12: a failed token refresh after a 401/403 is swallowed: no refresh-retry
\* POST, headers/body/session tokens keep their pre-refresh values, the
\* original 401/403 response stands, and analyze_track fails with an upload
\* error carrying that status.
C12_RefreshFailureSwallowed ==
    RefreshFailed =>
        /\ nPost = 1
        /\ pc \in {"validate", "returned", "done"}
        /\ hdr_token = last_post.header
        /\ data_token = last_post.body
        /\ session_token = last_post.session
        /\ latest = last_post.latest
        /\ r.status \in {401, 403}
        /\ r.status = last_status
        /\ ClientEnded => UploadError(r.status)

C12_Witness ==
    /\ RefreshFailed
    /\ cr.net = "error"
    /\ ClientEnded
    /\ UploadError(403)

\* _post_with_optional_retry returned a response (it did not raise)
UploadReturned ==
    /\ UploadPhaseOver
    /\ r.net = "ok"
    /\ ~(outcome = NetworkFailure /\ file_id = Absent)

\* C13 as stated: a violated upload contract is fatal and precludes polling:
\* a final status other than 200 is an upload error carrying the status; a
\* 200 that is not JSON, or valid JSON (object or not) with neither a
\* non-empty results nor a file_id, is a protocol error; no poll is issued
\* and no fallback returned.
C13_AsStated ==
    /\ (UploadReturned /\ r.status # 200) =>
          /\ nPoll = 0
          /\ pc \in {"validate", "returned", "done"}
          /\ ClientEnded => UploadError(r.status)
    /\ (UploadReturned /\ r.status = 200 /\
        (r.kind = "text" \/ r.kind = "array"
                        \/ (r.kind = "object" /\ ~Truthy(r.obj.results)
                                              /\ ~Truthy(r.obj.file_id)))) =>
          /\ nPoll = 0
          /\ pc \in {"validate", "returned", "done"}
          /\ ClientEnded => ProtocolError /\ outcome.code = 0

\* C13 (amended): a violated upload contract is fatal and precludes polling:
\* a final status other than 200 is an upload error carrying the status; a
\* 200 that is not JSON, or a JSON object with neither a non-empty results
\* nor a file_id, is a protocol error; a 200 whose JSON is not an object makes
\* the call fail with an AttributeError, which is no protocol error; in all
\* these cases no poll is issued and no fallback returned.
C13_UploadContractFatal ==
    /\ (UploadReturned /\ r.status # 200) =>
          /\ nPoll = 0
          /\ pc \in {"validate", "returned", "done"}
          /\ ClientEnded => UploadError(r.status)
    /\ (UploadReturned /\ r.status = 200 /\
        (r.kind = "text" \/ (r.kind = "object" /\ ~Truthy(r.obj.results)
                                               /\ ~Truthy(r.obj.file_id)))) =>
          /\ nPoll = 0
          /\ pc \in {"validate", "returned", "done"}
          /\ ClientEnded => ProtocolError /\ outcome.code = 0
    /\ (UploadReturned /\ r.status = 200 /\ r.kind = "array") =>
          /\ nPoll = 0
          /\ pc \in {"validate", "returned", "done"}
          /\ ClientEnded => outcome.kind = "raise" /\ outcome.etype = "AttributeError"

C13_Witness ==
    /\ ClientEnded
    /\ r.status = 200
    /\ r.kind = "object"
    /\ r.obj.file_id = Empty
    /\ r.obj.results = Empty
    /\ ProtocolError

\* C14: the visuals fallback is returned only when the loop exited on the
\* deadline without a successful parse; a poll that is 200 with a JSON
\* content-type and a body that parses (whatever the value, the empty object
\* included) ends polling and its annotated value is returned.
C14_FallbackOnlyOnTimeout ==
    /\ (ClientEnded /\ outcome.kind = "return" /\ file_id # Absent
          /\ outcome.value = SpecFallback(file_id, filename)) => ~PolledValidJson
    /\ (ClientEnded /\ PolledValidJson) => outcome.kind = "return"

\* C15: after every non-terminal poll the client sleeps before the next poll:
\* 3 seconds after a 404 or 403, 2 seconds after any other non-terminal
\* response (a 200 that fails to parse or is not JSON included).
C15_SleepAfterNonTerminalPoll ==
    (pc = "poll" /\ nPoll > 0) =>
        last_sleep = IF pr.status \in {404, 403} THEN 3 ELSE 2

\* the call ended in the token or upload phase on an answer of the host (or
\* on the failure of a request that was sent)
EndedBeforePolling == ClientEnded /\ file_id = Absent /\ nGet >= 1

\* C16: the polling deadline runs from the start of the poll loop: a poll is
\* issued only while less than `timeout` seconds have passed since then, the
\* loop gives up only once they have, and with timeout <= 0 no poll is issued
\* and the fallback is returned directly: a call with timeout <= 0 that does
\* not end in the token or upload phase returns the fallback.
C16_DeadlineFromLoopStart ==
    /\ nPoll > 0 =>
          /\ last_poll_at >= poll_began
          /\ last_poll_at - poll_began < timeout
    /\ (pc = "finalize" /\ ~json_results.some) => now - poll_began >= timeout
    /\ timeout <= 0 =>
          /\ nPoll = 0
          /\ (ClientEnded /\ ~EndedBeforePolling) =>
                outcome = Return(SpecFallback(file_id, filename))

\* C17: requests are issued one at a time and in phase order: a successful
\* token GET before the first POST; a later token GET only directly after a
\* 401/403; the first poll only after a final upload response that is 200
\* with a file_id and no results; no token GET or POST once polling began.
C17_SequentialPhases ==
    [][ /\ (nGet' - nGet) + (nPost' - nPost) + (nPoll' - nPoll) <= 1
        /\ (nPost' > nPost /\ nPost = 0) => nGet = 1 /\ latest # Absent
        /\ (nGet' > nGet /\ nPost > 0) =>
              nPost = 1 /\ nGet = 1 /\ last_status \in {401, 403}
        /\ (nPoll' > nPoll /\ nPoll = 0) =>
              /\ last_status = 200
              /\ r.status = 200
              /\ r.kind = "object"
              /\ Truthy(r.obj.file_id)
              /\ ~Truthy(r.obj.results)
        /\ (nPoll > 0 \/ pc \in {"poll", "poll_sleep", "finalize"}) =>
              nGet' = nGet /\ nPost' = nPost
      ]_vars

C17_Witness ==
    /\ nGet = 2
    /\ nPost = 3
    /\ nPoll = 2

\* C18: two concurrent calls share no mutable state.  Under any interleaving,
\* a request of one call never carries a CSRF token (X-CSRFToken header, body
\* field, session default), cookie, filename or file_id obtained by the other
\* call; the two calls use different Session objects; the token a call uses
\* (session default, header map, body map) is always the one of its own
\* latest acquisition, so a refresh by the other call never changes it; and
\* what a call returns names its own file_id and filename only.
C18_NoSharedState ==
    \A c \in Calls :
        LET me == calls[c]
            other == calls[OtherCall(c)]
        IN  /\ me.req.header \notin other.mine
            /\ me.req.body \notin other.mine
            /\ me.req.session \notin other.mine
            /\ me.req.cookie \notin other.mine
            /\ me.req.filename # other.filename
            /\ me.req.file_id # Absent => me.req.file_id # other.file_id
            /\ me.session # 0 => me.session # other.session
            /\ me.latest # Absent =>
                  /\ sessions[me.session].xcsrf = me.latest
                  /\ me.hdr = me.latest
                  /\ me.data = me.latest
                  /\ me.latest \in me.mine
            /\ me.out.kind = "return" =>
                  /\ me.out.value.file_id # Absent =>
                        me.out.value.file_id = me.file_id
                  /\ me.out.value.filename # Absent =>
                        me.out.value.filename = me.filename

\* both calls have uploaded with a token of their own, one of them after a
\* refresh that took place when the other already held its token, and both
\* have polled for a file_id of their own
C18_Witness ==
    /\ calls[1].req.kind = "poll"
    /\ calls[2].req.kind = "poll"
    /\ calls[1].file_id # calls[2].file_id
    /\ Cardinality(calls[1].mine) = 2
    /\ Cardinality(calls[2].mine) = 1
    /\ calls[1].latest = FreshToken(2)
    /\ calls[2].latest = FreshToken(1)
    /\ sessions[calls[2].session].xcsrf = FreshToken(1)

\* C19: the Session of a call is closed on every exit path: no call ends
\* with its Session still open.
C19_SessionReleased ==
    ClientEnded => ~session_open


\* the request is over: POST /analyze has been answered, or the direct call
\* of analyze_track has returned or raised
Terminated ==
    \/ pc = "done"
    \/ caller = "direct" /\ pc = "returned"

\* C20: every call eventually terminates with a result or an error, whatever
\* the remote host answers, given that every request returns or times out
\* and the clock advances; the poll loop exits once the deadline has passed
\* even if every poll is non-terminal.
C20_Terminates == <>Terminated

\* a call that ended after polls that were all non-terminal
C20_Witness ==
    /\ Terminated
    /\ nPoll >= 2
    /\ nNonTerminal = nPoll
    /\ pr.net = "ok"
    /\ outcome.kind = "return"

====
